---- MODULE Spec2Model ----
(***************************************************************************)
(* A model of src/stunnel-plug.c, the SLURM SPANK "stunnel" plugin: the    *)
(* configuration load, the --tunnel option, the LocalSetup hook            *)
(* (slurm_spank_local_user_init), the launcher (_connect_node) and the     *)
(* Exit hook (slurm_spank_exit).                                           *)
(*                                                                         *)
(* C strings are sequences of one-character strings.  A char* that may be  *)
(* NULL is a sequence of length 0 (NULL) or 1 (the string it points to).   *)
(***************************************************************************)
EXTENDS Integers, Sequences, FiniteSets, TLC

\* ------------------------------------------------------------- bounds

\* Largest number of configuration tokens (ac) handed to slurm_spank_init.
MaxAc == 2

\* Largest number of hook invocations (LocalSetup / Exit) in one run.
MaxHooks == 2

\* ------------------------------------------------------------ strings

Null == <<>>
Some(s) == <<s>>
IsNull(p) == p = <<>>
Deref(p) == p[1]

DigitChars == <<"0","1","2","3","4","5","6","7","8","9">>

\* printf's %u conversion of a uint32_t: the decimal digits, most
\* significant first, no sign, no padding.
RECURSIVE FormatU(_)
FormatU(n) ==
    IF n < 10 THEN <<DigitChars[n + 1]>>
    ELSE FormatU(n \div 10) \o <<DigitChars[(n % 10) + 1]>>

\* strncmp(elt, pre, strlen(pre)) == 0
HasPrefix(elt, pre) ==
    /\ Len(elt) >= Len(pre)
    /\ SubSeq(elt, 1, Len(pre)) = pre

\* elt + n
Skip(elt, n) == SubSeq(elt, n + 1, Len(elt))

\* ------------------------------------------------------ configuration

DEFAULT_SSH_CMD == <<"s","s","h">>
DEFAULT_SSH_ARGS == <<>>
DEFAULT_HELPERTASK_ARGS == <<>>

KEY_SSH_CMD == <<"s","s","h","_","c","m","d","=">>
KEY_SSH_ARGS == <<"s","s","h","_","a","r","g","s","=">>
KEY_HELPERTASK_ARGS == <<"h","e","l","p","e","r","t","a","s","k","_","a","r","g","s","=">>

\* A plausible slip: the loop stops after the first '|' it replaces.
RECURSIVE ReplaceFirstPipe(_)
ReplaceFirstPipe(s) ==
    IF s = <<>> THEN <<>>
    ELSE IF Head(s) = "|" THEN <<" ">> \o Tail(s)
    ELSE <<Head(s)>> \o ReplaceFirstPipe(Tail(s))

\* while ( *p != '\0' ) { if ( *p == '|' ) *p = ' '; p++; }
RECURSIVE ReplacePipes(_)
ReplacePipes(s) ==
    IF s = <<>> THEN <<>>
    ELSE <<(IF Head(s) = "|" THEN " " ELSE Head(s))>> \o ReplacePipes(Tail(s))

\* field = strdup(elt + n); p = field; while ( p != NULL && ... ) ...
\* strdup returns NULL when the copy cannot be allocated, and the loop is
\* then skipped, leaving the field NULL.
StoreOverride(elt, n, ok) ==
    IF ok THEN Some(ReplacePipes(Skip(elt, n))) ELSE Null

\* One iteration of the for loop of __stunnel_init_config.
ConfigStep(cfg, elt, ok) ==
    IF HasPrefix(elt, KEY_SSH_CMD)
        THEN [cfg EXCEPT !.ssh_cmd = StoreOverride(elt, 8, ok)]
    ELSE IF HasPrefix(elt, KEY_SSH_ARGS)
        THEN [cfg EXCEPT !.ssh_args = StoreOverride(elt, 9, ok)]
    ELSE IF HasPrefix(elt, KEY_HELPERTASK_ARGS)
        THEN [cfg EXCEPT !.helpertask_args = StoreOverride(elt, 16, ok)]
    ELSE cfg

\* for (i = 0; i < ac; i++) ...: the configuration after tokens i..ac.
RECURSIVE InitConfig(_, _, _, _)
InitConfig(cfg, args, oks, i) ==
    IF i > Len(args) THEN cfg
    ELSE InitConfig(ConfigStep(cfg, args[i], oks[i]), args, oks, i + 1)

\* (ssh_cmd == NULL) ? DEFAULT_SSH_CMD : ssh_cmd, and likewise.
OrDefault(p, dflt) == IF IsNull(p) THEN dflt ELSE Deref(p)

\* Configuration tokens the plugin may be loaded with.
TOK_CMD_RSH == <<"s","s","h","_","c","m","d","=","r","s","h">>
TOK_ARGS_V4 == <<"s","s","h","_","a","r","g","s","=","-","v","|","-","4">>
TOK_ARGS_P == <<"s","s","h","_","a","r","g","s","=","|","q","|">>
TOK_HELPER == <<"h","e","l","p","e","r","t","a","s","k","_","a","r","g","s","=","-","x","|","y">>
TOK_CMD_QUOTE == <<"s","s","h","_","c","m","d","=","s","\"",";","r">>
TOK_NOEQ == <<"s","s","h","_","c","m","d">>
TOK_OTHER == <<"f","o","o","=","a","|","b">>

ConfigTokens ==
    {TOK_CMD_RSH, TOK_CMD_QUOTE, TOK_ARGS_V4, TOK_ARGS_P, TOK_HELPER, TOK_NOEQ,
     TOK_OTHER}

SeqsUpTo(S, n) == UNION {[1..k -> S] : k \in 0..n}

\* Configurations loaded in runs that go on to the hooks.
LoadedArgs ==
    {<<>>, <<TOK_ARGS_V4, TOK_CMD_RSH>>, <<TOK_HELPER, TOK_OTHER>>, <<TOK_CMD_QUOTE>>}

\* ----------------------------------------------------------- hostlist

\* s cut at every sep, empty pieces kept.
RECURSIVE SplitAcc(_, _, _, _)
SplitAcc(s, sep, cur, out) ==
    IF s = <<>> THEN Append(out, cur)
    ELSE IF Head(s) = sep THEN SplitAcc(Tail(s), sep, <<>>, Append(out, cur))
    ELSE SplitAcc(Tail(s), sep, Append(cur, Head(s)), out)

Split(s, sep) == SplitAcc(s, sep, <<>>, <<>>)

\* slurm_hostlist_create on a comma-separated list of host names: the
\* hosts in the order given; the empty string gives an empty list.
hostlist_create(nodes) == SelectSeq(Split(nodes, ","), LAMBDA h : h # <<>>)

\* A plausible slip: the last host is taken instead of the first.
hostlist_pop(hl) == IF hl = <<>> THEN Null ELSE Some(hl[Len(hl)])

\* slurm_hostlist_shift: the first host, or NULL when the list is empty.
hostlist_shift(hl) == IF hl = <<>> THEN Null ELSE Some(Head(hl))

\* Node lists the scheduler may report in a job record (job_ptr->nodes).
NODES_EMPTY == <<>>
NODES_A == <<"a">>
NODES_AB == <<"a",",","b">>
NODES_BAC == <<"b",",","a",",","c">>

NodeLists == {Null, Some(NODES_EMPTY), Some(NODES_A), Some(NODES_AB), Some(NODES_BAC)}

\* What a read through a NULL char* may yield when it does not trap.
Garbage == {<<>>, <<"(","n","u","l","l",")">>}

\* ------------------------------------------------------------- events

\* One call the plugin makes to its environment (libc, SLURM, the
\* logger), with its string argument, message, number and result.
Ev(call, str, msg, n, rc) ==
    [call |-> call, str |-> str, msg |-> msg, n |-> n, rc |-> rc]

Error(msg) == Ev("ERROR", Null, msg, 0, 0)
Segv == Ev("SIGSEGV", Null, "", 0, 0)

ESPANK_SUCCESS == 0

Calls(t, call) == {k \in 1..Len(t) : t[k].call = call}

\* ----------------------------------------------------------- launcher

STUNNEL_LIBEXEC_PROG == <<"/","u","s","r","/","l","i","b","e","x","e","c","/","s","t","u","n","n","e","l">>

\* The literal pieces of expc_pattern in _connect_node, between its
\* conversions: PROG " -t %s -i %u.%u -cgw -s \"%s\" -o \"%s\" 2>/dev/null %s &"
CN_T == <<" ","-","t"," ">>
CN_I == <<" ","-","i"," ">>
CN_DOT == <<".">>
CN_S == <<" ","-","c","g","w"," ","-","s"," ","\"">>
CN_O == <<"\""," ","-","o"," ","\"">>
CN_NULL == <<"\""," ","2",">","/","d","e","v","/","n","u","l","l"," ">>
CN_BG == <<" ","&">>

\* strlen(expc_pattern): the literal text and two characters for each of
\* the six conversions.
ConnectPatternLen ==
    Len(STUNNEL_LIBEXEC_PROG) + Len(CN_T) + Len(CN_I) + Len(CN_DOT)
        + Len(CN_S) + Len(CN_O) + Len(CN_NULL) + Len(CN_BG) + 12

\* snprintf(buf, size, ...): at most size - 1 characters are stored.
Snprintf(size, text) ==
    IF Len(text) < size THEN text ELSE SubSeq(text, 1, size - 1)

\* The text expc_pattern formats to with the arguments of line 465-469.
ConnectText(node, jobid, stepid, cfg) ==
    STUNNEL_LIBEXEC_PROG \o CN_T \o node \o CN_I \o FormatU(jobid) \o CN_DOT
        \o FormatU(stepid) \o CN_S \o OrDefault(cfg.ssh_cmd, DEFAULT_SSH_CMD)
        \o CN_O \o OrDefault(cfg.ssh_args, DEFAULT_SSH_ARGS)
        \o CN_NULL \o OrDefault(cfg.helpertask_args, DEFAULT_HELPERTASK_ARGS)
        \o CN_BG

\* expc_length of _connect_node.
ConnectLength(node, cfg) ==
    ConnectPatternLen + Len(node) + 128
        + Len(OrDefault(cfg.ssh_cmd, DEFAULT_SSH_CMD))
        + Len(OrDefault(cfg.ssh_args, DEFAULT_SSH_ARGS))
        + Len(OrDefault(cfg.helpertask_args, DEFAULT_HELPERTASK_ARGS))

\* The command _connect_node hands to popen.
ConnectCmd(node, jobid, stepid, cfg) ==
    Snprintf(ConnectLength(node, cfg), ConnectText(node, jobid, stepid, cfg))

MSG_CONNECT == "tunnel: unable to connect node %s"

\* _connect_node, lines 472-477: f is the FILE* (1, or 0 for NULL) and r
\* what fscanf returns.
ConnectRead(f, r) ==
    <<Ev("fscanf", Null, "", f, r)>>
        \o (IF r # 1 THEN <<Error(MSG_CONNECT)>> ELSE <<>>)

\* A plausible slip: the command is freed and the pipe is left open.
ConnectCloseLeak(f, r, cmd) ==
    <<Ev("free", Some(cmd), "", 0, 0),
      Ev("_connect_node returns", Null, "", 0, IF r # 1 THEN -1 ELSE 0)>>

\* _connect_node, lines 478-482, status being 0 exactly when fscanf
\* returned 1.
ConnectClose(f, r, cmd) ==
    <<Ev("pclose", Null, "", f, 0), Ev("free", Some(cmd), "", 0, 0),
      Ev("_connect_node returns", Null, "", 0, IF r # 1 THEN -1 ELSE 0)>>

\* _connect_node with a node name it could read, up to where it blocks,
\* returns or traps.  popen may return NULL, and the fscanf and the pclose
\* that follow are then calls on a NULL FILE*: each may trap, or return.
ConnectNamed(name, jobid, stepid, cfg) ==
    LET cmd == ConnectCmd(name, jobid, stepid, cfg)
        built == <<Ev("malloc", Null, "", ConnectLength(name, cfg), 1)>>
        spawn(rc) == built \o <<Ev("popen", Some(cmd), "", 0, rc)>>
    IN  {[trace |-> <<Ev("malloc", Null, "", ConnectLength(name, cfg), 0),
                     Ev("_connect_node returns", Null, "", 0, -1)>>,
          end |-> "returned"]}
        \cup {[trace |-> spawn(1), end |-> "blocked"]}
        \cup {[trace |-> spawn(0) \o <<Ev("fscanf", Null, "", 0, -1), Segv>>,
               end |-> "crashed"]}
        \cup {[trace |-> spawn(0) \o ConnectRead(0, r) \o ConnectClose(0, r, cmd),
               end |-> "returned"] : r \in {-1, 1}}
        \cup {[trace |-> spawn(0) \o ConnectRead(0, r)
                            \o <<Ev("pclose", Null, "", 0, 0), Segv>>,
               end |-> "crashed"] : r \in {-1, 1}}

\* _connect_node(node, jobid, stepid).  With node NULL, strlen(node) reads
\* through a NULL pointer: it traps, or yields some length and text.
ConnectNode(node, jobid, stepid, cfg) ==
    LET entry == <<Ev("_connect_node", node, "", 0, 0)>>
        outs(name) == {[o EXCEPT !.trace = entry \o @]
                          : o \in ConnectNamed(name, jobid, stepid, cfg)}
    IN  IF IsNull(node)
        THEN {[trace |-> entry \o <<Segv>>, end |-> "crashed"]}
                 \cup UNION {outs(g) : g \in Garbage}
        ELSE outs(Deref(node))

\* -------------------------------------------------------- LocalSetup

MSG_LOAD == "stunnel: unable to get job infos"
MSG_COUNT == "stunnel: job infos are invalid"
MSG_NODES == "stunnel: job has no allocated nodes defined"

GetItem(item, val, rc) == Ev("spank_get_item", Null, item, val, rc)
LoadJob(cnt, nodes, rc) == Ev("slurm_load_job", nodes, "", cnt, rc)
FreeJobInfo == Ev("slurm_free_job_info_msg", Null, "", 0, 0)

\* A plausible slip: the launcher's status is handed back to the hook.
ConnectNodesStatus(st) == st

\* What _stunnel_connect_nodes returns (line 498), st being the status of
\* _connect_node, which it drops.
ConnectNodesReturn(st) == 0

\* Lines 496-498 and 163-167: after _connect_node has returned st.
LocalTail(st) ==
    <<Ev("slurm_hostlist_destroy", Null, "", 0, 0),
      Ev("_stunnel_connect_nodes returns", Null, "", 0, ConnectNodesReturn(st)),
      FreeJobInfo>>

\* The status _connect_node returned, as the trace records it.
StatusOf(t) == t[CHOOSE k \in Calls(t, "_connect_node returns") : TRUE].rc

\* The status lines 138-158 leave when they do not reach line 161, and 0
\* when they do.
ResolveStatus(load_rc, cnt, nodes) ==
    IF load_rc # 0 THEN -3
    ELSE IF cnt # 1 THEN -4
    ELSE IF IsNull(nodes) THEN -5
    ELSE 0

\* _stunnel_connect_nodes(nodes, jobid, stepid) up to where _connect_node
\* blocks, returns or traps.
ConnectNodes(nodes, jobid, stepid, cfg) ==
    LET hl == hostlist_create(nodes)
        host == hostlist_shift(hl)
        head == <<Ev("slurm_hostlist_create", Some(nodes), "", Len(hl), 0),
                  Ev("slurm_hostlist_shift", host, "", 0, 0)>>
    IN  {[o EXCEPT !.trace = head \o @] : o \in ConnectNode(host, jobid, stepid, cfg)}

\* What slurm_load_job may hand back: a failure, or a buffer with its
\* record_count and, when that is 1, the nodes of the one record.
LoadReplies ==
    {[rc |-> -1, cnt |-> 0, nodes |-> Null]}
        \cup {[rc |-> 0, cnt |-> c, nodes |-> Null] : c \in {0, 2}}
        \cup {[rc |-> 0, cnt |-> 1, nodes |-> n] : n \in NodeLists}

\* The ERROR of lines 140, 147 and 155.
ResolveMessage(st) ==
    IF st = -3 THEN MSG_LOAD ELSE IF st = -4 THEN MSG_COUNT ELSE MSG_NODES

\* A plausible slip: the result of spank_get_item is not looked at.
GetItemUnchecked(rc) == FALSE

\* Lines 124 and 130: spank_get_item(...) != ESPANK_SUCCESS, on which the
\* hook sets status to -1 and goes to exit.
GetItemFailed(rc) == rc # ESPANK_SUCCESS

\* What spank_get_item may return: ESPANK_SUCCESS or an error.
ItemReplies == {ESPANK_SUCCESS, 1}

\* slurm_spank_local_user_init up to where it blocks, returns or traps:
\* the calls it makes, how it ends, and the status it returns.
LocalUserInit(jb, cfg) ==
    LET g1(rc1) ==
            <<GetItem("S_JOB_ID", IF rc1 = ESPANK_SUCCESS THEN jb.jobid ELSE 0, rc1)>>
        g2(rc1, rc2) ==
            g1(rc1) \o <<GetItem("S_JOB_STEPID",
                                 IF rc2 = ESPANK_SUCCESS THEN jb.stepid ELSE 0, rc2)>>
        done(t, r) == [trace |-> t, end |-> "returned", ret |-> r]
        loaded(g, r) == g \o <<LoadJob(r.cnt, r.nodes, r.rc)>>
        resolved(g, r) ==
            LET st == ResolveStatus(r.rc, r.cnt, r.nodes)
            IN  IF st # 0
                THEN {done(loaded(g, r) \o <<Error(ResolveMessage(st))>>
                               \o (IF st = -3 THEN <<>> ELSE <<FreeJobInfo>>),
                           st)}
                ELSE {IF o.end = "returned"
                          THEN done(loaded(g, r) \o o.trace
                                        \o LocalTail(StatusOf(o.trace)),
                                    ConnectNodesReturn(StatusOf(o.trace)))
                          ELSE [trace |-> loaded(g, r) \o o.trace,
                                end |-> o.end, ret |-> 0]
                        : o \in ConnectNodes(Deref(r.nodes), jb.jobid,
                                             jb.stepid, cfg)}
        stepid(rc1) ==
            UNION {IF GetItemFailed(rc2)
                       THEN {done(g2(rc1, rc2), -1)}
                       ELSE UNION {resolved(g2(rc1, rc2), r) : r \in LoadReplies}
                     : rc2 \in ItemReplies}
    IN  UNION {IF GetItemFailed(rc1) THEN {done(g1(rc1), -1)} ELSE stepid(rc1)
                 : rc1 \in ItemReplies}

\* --------------------------------------------------------------- Exit

\* X11_LIBEXEC_PROG is used at line 381 and defined nowhere in the file;
\* this is its value in the X11 plugin the file was adapted from.
X11_LIBEXEC_PROG == <<"/","u","s","r","/","l","i","b","e","x","e","c","/","s","l","u","r","m","-","s","p","a","n","k","-","x","1","1">>

\* The literal pieces of expc_pattern in slurm_spank_exit:
\* PROG " -i %u.%u -r 2>/dev/null"
EX_I == <<" ","-","i"," ">>
EX_DOT == <<".">>
EX_R == <<" ","-","r"," ","2",">","/","d","e","v","/","n","u","l","l">>

MSG_REMOVE == "x11: error while creating remove reference cmd"
MSG_EXEC == "x11: unable to exec remove cmd '%s'"

\* expc_length of slurm_spank_exit: strlen(expc_pattern) + 128.
ExitLength == Len(X11_LIBEXEC_PROG) + Len(EX_I) + Len(EX_DOT) + Len(EX_R) + 4 + 128

\* A plausible slip: the step id is printed where the job id belongs.
ExitTextSwapped(jobid, stepid) ==
    X11_LIBEXEC_PROG \o EX_I \o FormatU(stepid) \o EX_DOT \o FormatU(jobid) \o EX_R

\* The text expc_pattern formats to with jobid and stepid (line 401).
ExitText(jobid, stepid) ==
    X11_LIBEXEC_PROG \o EX_I \o FormatU(jobid) \o EX_DOT \o FormatU(stepid) \o EX_R

\* Lines 406-412: popen(expc_cmd) returning rc (1, or 0 for NULL).
ExitSpawn(cmd, rc) ==
    <<Ev("popen", cmd, "", 0, rc)>>
        \o (IF rc = 0 THEN <<Error(MSG_EXEC)>> ELSE <<Ev("pclose", Null, "", 1, 0)>>)

\* Line 386: if (!spank_remote (sp)) return 0;
ExitReturnsEarly(remote) == remote = 0

\* slurm_spank_exit: the calls it makes, how it ends, and what it returns.
\* With expc_cmd NULL line 400 is false and line 406 calls popen(NULL),
\* which may trap, fail, or start a shell with no command.
SpankExit(jb) ==
    LET done(t, r) == [trace |-> t, end |-> "returned", ret |-> r]
        r1(remote) == <<Ev("spank_remote", Null, "", 0, remote)>>
        g1(remote) == r1(remote) \o <<GetItem("S_JOB_ID", jb.jobid, ESPANK_SUCCESS)>>
        g2(remote) ==
            g1(remote) \o <<GetItem("S_JOB_STEPID", jb.stepid, ESPANK_SUCCESS)>>
        text == ExitText(jb.jobid, jb.stepid)
        cmd == Snprintf(ExitLength, text)
        m(remote, rc) == g2(remote) \o <<Ev("malloc", Null, "", ExitLength, rc)>>
        free == <<Ev("free", Some(cmd), "", 0, 0)>>
        work(remote) ==
            {done(r1(remote) \o <<GetItem("S_JOB_ID", 0, 1)>>, -1),
             done(g1(remote) \o <<GetItem("S_JOB_STEPID", 0, 1)>>, -1),
             [trace |-> m(remote, 0) \o <<Ev("popen", Null, "", 0, 0), Segv>>,
              end |-> "crashed", ret |-> 0]}
            \cup {done(m(remote, 0) \o ExitSpawn(Null, rc), 0) : rc \in {0, 1}}
            \cup (IF Len(text) >= ExitLength
                  THEN {done(m(remote, 1) \o <<Error(MSG_REMOVE)>> \o free, 0)}
                  ELSE {done(m(remote, 1) \o ExitSpawn(Some(cmd), rc) \o free, 0)
                          : rc \in {0, 1}})
    IN  UNION {IF ExitReturnsEarly(remote)
                   THEN {done(r1(remote), 0)}
                   ELSE work(remote) : remote \in {0, 1}}

\* ------------------------------------------------- the --tunnel option

\* The value of a string of decimal digits.
RECURSIVE DigitsValue(_, _)
DigitsValue(s, acc) ==
    IF s = <<>> THEN acc
    ELSE DigitsValue(Tail(s),
             10 * acc + (CHOOSE d \in 0..9 : DigitChars[d + 1] = Head(s)))

IsDigits(s) ==
    /\ s # <<>>
    /\ \A k \in 1..Len(s) : \E d \in 1..10 : DigitChars[d] = s[k]

\* A plausible slip: the range of the port is not tested.
IsNumber(s) == IsDigits(s)

\* A port: a non-empty numeric token in the range 1-65535.
IsPort(s) ==
    /\ IsDigits(s)
    /\ Len(s) <= 5
    /\ DigitsValue(s, 0) >= 1
    /\ DigitsValue(s, 0) <= 65535

\* One submit:exec entry: exactly two ports separated by ':'.
IsPair(e) ==
    LET parts == Split(e, ":")
    IN  Len(parts) = 2 /\ IsPort(parts[1]) /\ IsPort(parts[2])

\* The option value is acceptable: present, and every comma-separated
\* entry a pair of ports.
TunnelValid(arg) ==
    /\ ~IsNull(arg)
    /\ \A k \in 1..Len(Split(Deref(arg), ",")) : IsPair(Split(Deref(arg), ",")[k])

\* A plausible slip: the pairs are stored last entry first.
TunnelPairsReversed(arg) ==
    LET es == Split(Deref(arg), ",")
    IN  [k \in 1..Len(es) |->
            <<DigitsValue(Split(es[Len(es) + 1 - k], ":")[1], 0),
              DigitsValue(Split(es[Len(es) + 1 - k], ":")[2], 0)>>]

\* The TunnelSpec of an acceptable option value: its pairs, in order.
TunnelPairs(arg) ==
    LET es == Split(Deref(arg), ",")
    IN  [k \in 1..Len(es) |->
            <<DigitsValue(Split(es[k], ":")[1], 0), DigitsValue(Split(es[k], ":")[2], 0)>>]

OPT_ONE == <<"8","0","8","0",":","8","0">>
OPT_TWO == <<"1",":","2",",","6","5","5","3","5",":","4">>
OPT_NOPAIR == <<"8","0">>
OPT_ZERO == <<"0",":","5">>
OPT_BIG == <<"7","0","0","0","0",":","1">>
OPT_ALPHA == <<"a",":","1">>
OPT_TRAIL == <<"1",":","2",",">>
OPT_THREE == <<"1",":","2",":","3">>
OPT_NOSUBMIT == <<":","5">>
OPT_OVER == <<"6","5","5","3","6",":","1">>

OptionValues ==
    {Null, Some(OPT_ONE), Some(OPT_TWO), Some(OPT_NOPAIR), Some(OPT_ZERO),
     Some(OPT_BIG), Some(OPT_ALPHA), Some(OPT_TRAIL), Some(OPT_THREE),
     Some(OPT_NOSUBMIT), Some(OPT_OVER)}

\* -------------------------------------------------------------- state

\* The jobs the hooks may run for: (jobid, stepid) as spank_get_item
\* reports them.
Jobs == {[jobid |-> 100, stepid |-> 0], [jobid |-> 7, stepid |-> 12]}

VARIABLES
    pc,               \* "load", "idle", "fscanf", "crashed", "rejected"
    ssh_cmd,          \* static char* ssh_cmd (line 54)
    ssh_args,         \* static char* ssh_args (line 55)
    helpertask_args,  \* static char* helpertask_args (line 56)
    av,               \* the av[] slurm_spank_init was called with
    strdup_ok,        \* for each av[i], whether a strdup of it succeeds
    optarg,           \* the value the --tunnel callback was called with
    opt_state,        \* "unset", "set", "rejected": the --tunnel option
    tunnel_spec,      \* the port pairs stored by the option callback
    job,              \* the (jobid, stepid) of the scheduler context
    hooks,            \* hook invocations so far
    hook,             \* the hook invoked last: "none", "init", "opt", "local", "exit"
    trace,            \* the calls that invocation made, in order
    ret,              \* what it returned, once it has
    helper_out,       \* the spawned helper's output: "silent", "token", "closed"
    launched          \* the commands LocalSetup has spawned so far

vars ==
    <<pc, ssh_cmd, ssh_args, helpertask_args, av, strdup_ok, optarg, opt_state,
      tunnel_spec, job, hooks, hook, trace, ret, helper_out, launched>>

config == <<ssh_cmd, ssh_args, helpertask_args>>

Cfg == [ssh_cmd |-> ssh_cmd, ssh_args |-> ssh_args, helpertask_args |-> helpertask_args]

Init ==
    /\ pc = "load"
    /\ ssh_cmd = Null
    /\ ssh_args = Null
    /\ helpertask_args = Null
    /\ av = <<>>
    /\ strdup_ok = <<>>
    /\ optarg = Null
    /\ opt_state = "unset"
    /\ tunnel_spec = <<>>
    /\ job \in Jobs
    /\ hooks = 0
    /\ hook = "none"
    /\ trace = <<>>
    /\ ret = Null
    /\ helper_out = "silent"
    /\ launched = {}

Recognized(elt) ==
    \/ HasPrefix(elt, KEY_SSH_CMD)
    \/ HasPrefix(elt, KEY_SSH_ARGS)
    \/ HasPrefix(elt, KEY_HELPERTASK_ARGS)

\* slurm_spank_init: register the option, load the configuration from
\* av[0..ac-1], return 0.  strdup is called for the recognized tokens only.
\* (Line 105 spells the callee _stunnel_init_config; the loader defined in
\* the file is __stunnel_init_config, line 502, and is what runs here.)
SlurmSpankInit(argsets) ==
    /\ pc = "load"
    /\ \E args \in argsets :
       \E oks \in [1..Len(args) -> BOOLEAN] :
          /\ \A k \in 1..Len(args) : ~Recognized(args[k]) => oks[k]
          /\ LET cfg == InitConfig(Cfg, args, oks, 1)
             IN  /\ ssh_cmd' = cfg.ssh_cmd
                 /\ ssh_args' = cfg.ssh_args
                 /\ helpertask_args' = cfg.helpertask_args
          /\ av' = args
          /\ strdup_ok' = oks
    /\ pc' = "idle"
    /\ hook' = "init"
    /\ ret' = Some(0)
    /\ UNCHANGED <<optarg, opt_state, tunnel_spec, job, hooks, trace, helper_out,
                   launched>>

\* _tunnel_opt_process(val, optarg, remote), while srun parses its options
\* and before any hook: store the pairs and return 0, or return -1, which
\* makes srun reject the command line.
TunnelOptProcess ==
    /\ pc = "idle"
    /\ hooks = 0
    /\ opt_state = "unset"
    /\ \E arg \in OptionValues :
          /\ optarg' = arg
          /\ IF TunnelValid(arg)
             THEN /\ tunnel_spec' = TunnelPairs(arg)
                  /\ opt_state' = "set"
                  /\ ret' = Some(0)
                  /\ pc' = pc
             ELSE /\ tunnel_spec' = tunnel_spec
                  /\ opt_state' = "rejected"
                  /\ ret' = Some(-1)
                  /\ pc' = "rejected"
    /\ hook' = "opt"
    /\ UNCHANGED <<config, av, strdup_ok, job, hooks, trace, helper_out, launched>>

\* The commands a trace spawned: the popen calls that returned a FILE*.
Spawned(t) == {Deref(t[k].str) : k \in {j \in Calls(t, "popen") : t[j].rc = 1 /\ ~IsNull(t[j].str)}}

\* A hook runs from its call to where it returns, blocks or traps.
Enter(name, o) ==
    /\ hook' = name
    /\ hooks' = hooks + 1
    /\ trace' = o.trace
    /\ ret' = IF o.end = "returned" THEN Some(o.ret) ELSE Null
    /\ pc' = CASE o.end = "returned" -> "idle"
               [] o.end = "blocked" -> "fscanf"
               [] o.end = "crashed" -> "crashed"
    /\ helper_out' = "silent"

\* A plausible slip: the default is stored into a field that is unset,
\* where _connect_node only substitutes it into the command.
ConnectConfigDefaulted(cfg) ==
    [ssh_cmd |-> Some(OrDefault(cfg.ssh_cmd, DEFAULT_SSH_CMD)),
     ssh_args |-> Some(OrDefault(cfg.ssh_args, DEFAULT_SSH_ARGS)),
     helpertask_args |-> Some(OrDefault(cfg.helpertask_args, DEFAULT_HELPERTASK_ARGS))]

\* The three globals after _connect_node: it reads them into the length
\* and into snprintf's arguments and assigns none of them.
ConnectConfig(cfg) == cfg

\* slurm_spank_local_user_init(sp, ac, av)
SlurmSpankLocalUserInit ==
    /\ pc = "idle"
    /\ hooks < MaxHooks
    /\ \E o \in LocalUserInit(job, Cfg) :
          /\ Enter("local", o)
          /\ launched' = launched \cup Spawned(o.trace)
          /\ LET cfg == IF Calls(o.trace, "_connect_node") = {} THEN Cfg
                        ELSE ConnectConfig(Cfg)
             IN  /\ ssh_cmd' = cfg.ssh_cmd
                 /\ ssh_args' = cfg.ssh_args
                 /\ helpertask_args' = cfg.helpertask_args
    /\ UNCHANGED <<av, strdup_ok, optarg, opt_state, tunnel_spec, job>>

\* The helper started by popen prints a token on its standard output.
HelperPrints ==
    /\ pc = "fscanf"
    /\ helper_out = "silent"
    /\ helper_out' = "token"
    /\ UNCHANGED <<pc, config, av, strdup_ok, optarg, opt_state, tunnel_spec, job,
                   hooks, hook, trace, ret, launched>>

\* The helper closes its standard output (or exits) having printed nothing.
HelperCloses ==
    /\ pc = "fscanf"
    /\ helper_out = "silent"
    /\ helper_out' = "closed"
    /\ UNCHANGED <<pc, config, av, strdup_ok, optarg, opt_state, tunnel_spec, job,
                   hooks, hook, trace, ret, launched>>

\* The command of the popen call the hook is blocked behind.
PendingCmd == Deref(trace[CHOOSE k \in Calls(trace, "popen") : TRUE].str)

\* fscanf(f, "%255s", forward) returns, 1 with a token and EOF at end of
\* file, and slurm_spank_local_user_init runs on to its return.
FscanfReturns ==
    /\ pc = "fscanf"
    /\ helper_out # "silent"
    /\ LET r == IF helper_out = "token" THEN 1 ELSE -1
           rest == ConnectRead(1, r) \o ConnectClose(1, r, PendingCmd)
       IN  /\ trace' = trace \o rest \o LocalTail(StatusOf(rest))
           /\ ret' = Some(ConnectNodesReturn(StatusOf(rest)))
    /\ pc' = "idle"
    /\ UNCHANGED <<config, av, strdup_ok, optarg, opt_state, tunnel_spec, job, hooks,
                   hook, helper_out, launched>>

\* slurm_spank_exit(sp, ac, av)
SlurmSpankExit ==
    /\ pc = "idle"
    /\ hooks < MaxHooks
    /\ \E o \in SpankExit(job) : Enter("exit", o)
    /\ UNCHANGED <<config, av, strdup_ok, optarg, opt_state, tunnel_spec, job, launched>>

Next ==
    \/ SlurmSpankInit(LoadedArgs)
    \/ TunnelOptProcess
    \/ SlurmSpankLocalUserInit
    \/ HelperPrints
    \/ HelperCloses
    \/ FscanfReturns
    \/ SlurmSpankExit

Spec == Init /\ [][Next]_vars

\* The hook's own steps are taken when they can be; the helper is another
\* program, and nothing makes it print or close.
FairSpec ==
    /\ Init
    /\ [][Next]_vars
    /\ WF_vars(SlurmSpankInit(LoadedArgs))
    /\ WF_vars(FscanfReturns)

\* The configuration load alone, over every list of at most MaxAc tokens.
NextConfig == SlurmSpankInit(SeqsUpTo(ConfigTokens, MaxAc))

ConfigSpec == Init /\ [][NextConfig]_vars

\* ------------------------------------------------- reading the trace

Count(call) == Cardinality(Calls(trace, call))
Logged(msg) == \E k \in Calls(trace, "ERROR") : trace[k].msg = msg
LoggedAny == Calls(trace, "ERROR") # {}

\* LocalSetup has run to its return.
LocalReturned == hook = "local" /\ pc = "idle"

\* The scheduler's answer to the hook's slurm_load_job, when it asked.
Asked == Calls(trace, "slurm_load_job") # {}
Reply == trace[CHOOSE k \in Calls(trace, "slurm_load_job") : TRUE]

\* sub occurs in s.
Contains(s, sub) ==
    \E k \in 0..(Len(s) - Len(sub)) : SubSeq(s, k + 1, k + Len(sub)) = sub

\* The word that follows the word flag in a command line.
ArgAfter(cmd, flag) ==
    LET ws == Split(cmd, " ")
        at == {k \in 1..(Len(ws) - 1) : ws[k] = flag}
    IN  IF at = {} THEN Null
        ELSE Some(ws[(CHOOSE k \in at : \A j \in at : k <= j) + 1])

FLAG_I == <<"-","i">>
FLAG_T == <<"-","t">>

\* jobid.stepid as the helper's -i argument spells it.
IdPair(jb) == Some(FormatU(jb.jobid) \o <<".">> \o FormatU(jb.stepid))

\* The first name of a comma-separated list: what precedes its first
\* comma, or all of it.
IsFirstHost(h, nodes) ==
    /\ h # <<>>
    /\ Len(h) <= Len(nodes)
    /\ \A k \in 1..Len(h) : h[k] = nodes[k] /\ h[k] # ","
    /\ (Len(h) < Len(nodes) => nodes[Len(h) + 1] = ",")

\* ------------------------------------------------------------- claims

\* C1: in LocalSetup every job-resolution failure (the lookup fails, the
\* record count is not 1, the node list is absent) is logged and the hook
\* still returns 0.
C1_ResolutionFailureReturnsZero ==
    (LocalReturned /\ Asked /\ (Reply.rc # 0 \/ Reply.n # 1 \/ IsNull(Reply.str)))
        => (LoggedAny /\ ret = Some(0))

SilentHelper ==
    /\ LocalReturned
    /\ \E k \in Calls(trace, "popen") : trace[k].rc = 1
    /\ \E k \in Calls(trace, "fscanf") : trace[k].n = 1 /\ trace[k].rc # 1

\* C2: when the helper is spawned but closes its output without printing a
\* token, _connect_node returns a failure and logs it, and the LocalSetup
\* hook that called it still returns 0.
C2_SilentHelperFailsLaunchOnly ==
    SilentHelper =>
        /\ StatusOf(trace) # 0
        /\ Logged(MSG_CONNECT)
        /\ ret = Some(0)

C2_Witness == SilentHelper /\ helper_out = "closed" /\ StatusOf(trace) = -1

ExitEnded == hook = "exit" /\ pc \in {"idle", "crashed"}
Remote == \E k \in Calls(trace, "spank_remote") : trace[k].rc # 0
IdsObtained ==
    Cardinality({k \in Calls(trace, "spank_get_item") : trace[k].rc = ESPANK_SUCCESS}) = 2
Teardown == trace[CHOOSE k \in Calls(trace, "popen") : TRUE]
TeardownNamesJob ==
    /\ ~IsNull(Teardown.str)
    /\ ArgAfter(Deref(Teardown.str), FLAG_I) = IdPair(job)
    /\ \A l \in launched : ArgAfter(l, FLAG_I) = ArgAfter(Deref(Teardown.str), FLAG_I)

\* C3 as claimed: the Exit hook in a remote context issues exactly one
\* teardown invocation, which references the (jobid, stepid) LocalSetup
\* launched with; in a non-remote context it issues none.
C3_RemoteExitOneTeardown ==
    ExitEnded =>
        IF Remote THEN Count("popen") = 1 /\ TeardownNamesJob
        ELSE Count("popen") = 0

\* C3 as amended: in a remote context in which both ids are obtained the
\* Exit hook calls popen exactly once, and with the command buffer
\* allocated that command names the (jobid, stepid) LocalSetup launched
\* with; with an id not obtained, or in a non-remote context, it calls
\* popen not at all.
C3_TeardownWhenIdsObtained ==
    ExitEnded =>
        IF Remote /\ IdsObtained
        THEN /\ Count("popen") = 1
             /\ (\E k \in Calls(trace, "malloc") : trace[k].rc = 1) => TeardownNamesJob
        ELSE Count("popen") = 0

C3_Witness ==
    /\ ExitEnded
    /\ Remote
    /\ Count("popen") = 1
    /\ Teardown.rc = 1
    /\ TeardownNamesJob
    /\ launched # {}

\* C4: resolution fails, and the launcher is never invoked, whenever the
\* scheduler returns zero or several records, and whenever the one
\* record's node list is absent or the empty string.
C4_NoLaunchWithoutNodes ==
    (hook = "local" /\ Asked /\ Reply.rc = 0
        /\ (Reply.n # 1 \/ IsNull(Reply.str) \/ Reply.str = Some(<<>>)))
        => /\ Count("_connect_node") = 0
           /\ Count("popen") = 0
           /\ pc = "idle"
           /\ ret # Some(0)

\* C5: node selection hands the launcher the first element of a non-empty
\* node sequence; on an empty sequence it fails with an empty-allocation
\* error and the launcher is never called with an absent hostname.
C5_SelectFirstOrFail ==
    (hook = "local" /\ Calls(trace, "slurm_hostlist_create") # {})
        => LET hl == trace[CHOOSE k \in Calls(trace, "slurm_hostlist_create") : TRUE]
           IN  IF hl.n > 0
               THEN \A k \in Calls(trace, "_connect_node") :
                        /\ ~IsNull(trace[k].str)
                        /\ IsFirstHost(Deref(trace[k].str), Deref(hl.str))
               ELSE Count("_connect_node") = 0 /\ LoggedAny

\* C6: if the spawn returns no pipe, the launcher logs a spawn failure and
\* neither reads from nor closes the pipe it does not have, and the launch
\* is not retried.
C6_NoReadOnFailedSpawn ==
    (hook = "local" /\ \E k \in Calls(trace, "popen") : trace[k].rc = 0)
        => /\ \A k \in Calls(trace, "fscanf") : trace[k].n # 0
           /\ \A k \in Calls(trace, "pclose") : trace[k].n # 0
           /\ Count("popen") = 1
           /\ (pc = "idle" => LoggedAny)

\* C7: the LocalSetup hook returns whatever the helper does: blocked in
\* the read of the helper's output, it gives up and runs to its return
\* even if the helper never prints and never closes its output.
C7_BlockedReadGivesUp == (hook = "local" /\ pc = "fscanf") ~> (pc = "idle")

LocalEnded == hook = "local" /\ pc \in {"idle", "fscanf", "crashed"}
PassedChecks == Asked /\ Reply.rc = 0 /\ Reply.n = 1 /\ ~IsNull(Reply.str)
Allocated == \E k \in Calls(trace, "malloc") : trace[k].rc = 1

\* C8 as claimed: for every successful job resolution in one LocalSetup
\* pass exactly one node is selected and exactly one tunnel command is
\* built and launched, whatever the number of nodes.
C8_ExactlyOneLaunch ==
    (LocalEnded /\ PassedChecks /\ Reply.str # Some(<<>>))
        => /\ Count("_connect_node") = 1
           /\ Count("popen") = 1

\* C8 as amended: in every LocalSetup pass that gets past the resolution
\* checks the launcher is called exactly once, with the first node of the
\* allocation when there is one, whatever the number of nodes; and at most
\* one tunnel command is built and handed to popen: exactly one when the
\* command buffer is allocated, none when it is not.
C8_OneLauncherCallAtMostOneCommand ==
    (LocalEnded /\ PassedChecks)
        => /\ Count("_connect_node") = 1
           /\ Count("popen") = (IF Allocated THEN 1 ELSE 0)
           /\ \A k \in Calls(trace, "_connect_node") :
                 Reply.str # Some(<<>>) =>
                    /\ ~IsNull(trace[k].str)
                    /\ IsFirstHost(Deref(trace[k].str), Deref(Reply.str))
                    /\ \A j \in Calls(trace, "popen") :
                          ArgAfter(Deref(trace[j].str), FLAG_T) = trace[k].str

C8_Witness ==
    /\ LocalReturned
    /\ PassedChecks
    /\ Reply.str = Some(NODES_BAC)
    /\ Count("popen") = 1
    /\ \E k \in Calls(trace, "popen") : trace[k].rc = 1

Directive(pr) == FormatU(pr[1]) \o <<":">> \o FormatU(pr[2])
FirstAt(s, sub) ==
    CHOOSE k \in 0..Len(s) :
        /\ SubSeq(s, k + 1, k + Len(sub)) = sub
        /\ \A j \in 0..(k - 1) : SubSeq(s, j + 1, j + Len(sub)) # sub

\* C9: the command the launcher renders embeds the selected node, the job
\* id and step id, the configured or default ssh command, ssh arguments
\* and helper-task arguments, and one forwarding directive for every port
\* pair of the TunnelSpec, in order.
C9_CommandEmbedsAll ==
    hook = "local" =>
        \A k \in Calls(trace, "popen") :
            LET cmd == Deref(trace[k].str)
            IN  /\ \A c \in Calls(trace, "_connect_node") :
                      ~IsNull(trace[c].str) => ArgAfter(cmd, FLAG_T) = trace[c].str
                /\ ArgAfter(cmd, FLAG_I) = IdPair(job)
                /\ Contains(cmd, OrDefault(ssh_cmd, DEFAULT_SSH_CMD))
                /\ Contains(cmd, OrDefault(ssh_args, DEFAULT_SSH_ARGS))
                /\ Contains(cmd, OrDefault(helpertask_args, DEFAULT_HELPERTASK_ARGS))
                /\ \A j \in 1..Len(tunnel_spec) : Contains(cmd, Directive(tunnel_spec[j]))
                /\ \A i, j \in 1..Len(tunnel_spec) :
                      i < j => FirstAt(cmd, Directive(tunnel_spec[i]))
                                  < FirstAt(cmd, Directive(tunnel_spec[j]))

StartsWith(tok, key) ==
    Len(tok) >= Len(key) /\ \A j \in 1..Len(key) : tok[j] = key[j]
Naming(key) == {k \in 1..Len(av) : StartsWith(av[k], key)}
LastNaming(key) == CHOOSE k \in Naming(key) : \A j \in Naming(key) : j <= k
IsRemainder(field, tok, key) ==
    /\ ~IsNull(field)
    /\ Len(Deref(field)) = Len(tok) - Len(key)
    /\ \A j \in 1..Len(Deref(field)) :
          Deref(field)[j] = (IF tok[Len(key) + j] = "|" THEN " " ELSE tok[Len(key) + j])
Fields ==
    {<<KEY_SSH_CMD, ssh_cmd>>, <<KEY_SSH_ARGS, ssh_args>>,
     <<KEY_HELPERTASK_ARGS, helpertask_args>>}

\* C10 as claimed: after the configuration load, for each of ssh_cmd=,
\* ssh_args= and helpertask_args= the field is the remainder of the last
\* token that starts with the key, every '|' replaced by a space, and a
\* field no token names is left as it was.
C10_LastOverrideStored ==
    pc = "idle" =>
        \A f \in Fields :
            IF Naming(f[1]) = {} THEN IsNull(f[2])
            ELSE IsRemainder(f[2], av[LastNaming(f[1])], f[1])

\* C10 as amended: the same, when the copy of the remainder is allocated;
\* when the strdup of the last token naming a key fails, the field is
\* left unset and the default applies.
C10_LastOverrideStoredWhenCopied ==
    pc = "idle" =>
        \A f \in Fields :
            IF Naming(f[1]) = {} THEN IsNull(f[2])
            ELSE IF strdup_ok[LastNaming(f[1])]
                 THEN IsRemainder(f[2], av[LastNaming(f[1])], f[1])
                 ELSE IsNull(f[2])

C10_Witness ==
    /\ pc = "idle"
    /\ av = <<TOK_ARGS_V4, TOK_ARGS_P>>
    /\ ssh_args = Some(<<" ","q"," ">>)
    /\ IsNull(ssh_cmd)

\* ------------------------------------------------- the --tunnel option

\* The separators of an option value, in the order they occur.
Separators(s) == SelectSeq(s, LAMBDA c : c \in {":", ","})

IsDigitAt(s, k) == k \in 1..Len(s) /\ s[k] \notin {":", ","}

\* The maximal runs of non-separator characters of s, as <<first, last>>.
Tokens(s) ==
    {r \in (1..Len(s)) \X (1..Len(s)) :
        /\ r[1] <= r[2]
        /\ \A k \in r[1]..r[2] : IsDigitAt(s, k)
        /\ ~IsDigitAt(s, r[1] - 1)
        /\ ~IsDigitAt(s, r[2] + 1)}

\* A comma-separated list of submit:exec pairs, read character by
\* character: tokens and separators alternate, the separators are
\* ':' ',' ':' ... ':', and every token is a number in 1..65535.
WellFormedList(s) ==
    /\ Len(s) > 0
    /\ IsDigitAt(s, 1) /\ IsDigitAt(s, Len(s))
    /\ \A k \in 1..(Len(s) - 1) : IsDigitAt(s, k) \/ IsDigitAt(s, k + 1)
    /\ Len(Separators(s)) % 2 = 1
    /\ \A k \in 1..Len(Separators(s)) :
          Separators(s)[k] = (IF k % 2 = 1 THEN ":" ELSE ",")
    /\ \A r \in Tokens(s) :
          LET tok == SubSeq(s, r[1], r[2])
          IN  /\ \A k \in 1..Len(tok) : \E d \in 0..9 : FormatU(d) = <<tok[k]>>
              /\ Len(tok) <= 5
              /\ DigitsValue(tok, 0) \in 1..65535

Malformed(arg) == IsNull(arg) \/ ~WellFormedList(Deref(arg))

RECURSIVE Render(_)
Render(spec) ==
    IF spec = <<>> THEN <<>>
    ELSE IF Len(spec) = 1 THEN Directive(spec[1])
    ELSE Directive(spec[1]) \o <<",">> \o Render(Tail(spec))

Commas(s) == Cardinality({k \in 1..Len(s) : s[k] = ","})

C13_ConfigWrittenOnlyAtInit ==
    [][pc # "load" =>
          /\ ssh_cmd' = ssh_cmd
          /\ ssh_args' = ssh_args
          /\ helpertask_args' = helpertask_args]_vars

C13_Witness ==
    /\ hooks = 2
    /\ hook = "exit"
    /\ launched # {}
    /\ Count("popen") = 1
    /\ ssh_cmd = Some(<<"r","s","h">>)
    /\ IsNull(helpertask_args)

\* ------------------------------------------------- the command as sh reads it

\* How sh -c reads a command line.  A backslash makes the next character
\* an ordinary one; a double quote that is not escaped opens or closes a
\* quoted stretch; outside quotes a blank separates words and a ';' ends
\* the command.
Escaped(s, k) ==
    LET n == CHOOSE n \in 0..(k - 1) :
                 /\ \A j \in 1..n : s[k - j] = "\\"
                 /\ (n = k - 1 \/ s[k - n - 1] # "\\")
    IN  n % 2 = 1

Quotes(s) == {k \in 1..Len(s) : s[k] = "\"" /\ ~Escaped(s, k)}

Unquoted(s, k) == Cardinality({j \in Quotes(s) : j < k}) % 2 = 0

Breaks(s, chars) ==
    {k \in 1..Len(s) : s[k] \in chars /\ ~Escaped(s, k) /\ Unquoted(s, k)}

\* The characters of s[i..j] the shell keeps: the quotes that delimit and
\* the backslashes that escape are dropped.
RECURSIVE WordText(_, _, _, _)
WordText(s, i, j, drop) ==
    IF i > j THEN <<>>
    ELSE (IF i \in drop THEN <<>> ELSE <<s[i]>>) \o WordText(s, i + 1, j, drop)

\* The word that follows the first word spelled flag, when there is one.
WordAfter(s, flag) ==
    LET brk == Breaks(s, {" ", ";"})
        drop == Quotes(s) \cup {k \in 1..Len(s) : s[k] = "\\" /\ ~Escaped(s, k)}
        isStart(k) == k \in 1..Len(s) /\ k \notin brk /\ (k = 1 \/ (k - 1) \in brk)
        endOf(k) == CHOOSE e \in k..Len(s) :
                        /\ \A j \in k..e : j \notin brk
                        /\ (e = Len(s) \/ (e + 1) \in brk)
        flags == {k \in 1..Len(s) : isStart(k) /\ SubSeq(s, k, endOf(k)) = flag}
        first == CHOOSE k \in flags : \A j \in flags : k <= j
        nexts == {k \in (first + 1)..Len(s) : isStart(k)}
        next == CHOOSE k \in nexts : \A j \in nexts : k <= j
    IN  IF flags = {} THEN Null
        ELSE IF nexts = {} THEN Null
        ELSE Some(WordText(s, next, endOf(next), drop))

FLAG_S == <<"-","s">>
FLAG_O == <<"-","o">>
END_OF_COMMAND == {";"}

\* The launches of the trace made for a node name that was there to read.
NamedLaunches ==
    {k \in Calls(trace, "popen") :
        /\ hook = "local"
        /\ ~IsNull(trace[k].str)
        /\ \E j \in Calls(trace, "_connect_node") : ~IsNull(trace[j].str)}

NodeOfLaunch == Deref(trace[CHOOSE j \in Calls(trace, "_connect_node") : TRUE].str)

\* C14: in every command the launcher hands to the shell, the node name,
\* the ssh command and the ssh arguments each reach the helper as the one
\* word that follows -t, -s and -o, and no value ends the command: a quote
\* or a ';' inside a value is never read by the shell as syntax.
C14_ValuesReachHelperIntact ==
    \A k \in NamedLaunches :
        LET cmd == Deref(trace[k].str)
        IN  /\ WordAfter(cmd, FLAG_T) = Some(NodeOfLaunch)
            /\ WordAfter(cmd, FLAG_S) = Some(OrDefault(ssh_cmd, DEFAULT_SSH_CMD))
            /\ WordAfter(cmd, FLAG_O) = Some(OrDefault(ssh_args, DEFAULT_SSH_ARGS))
            /\ Breaks(cmd, END_OF_COMMAND) = {}

\* ------------------------------------------------- pipes

\* The popen calls of the running hook that opened a pipe, and its pclose
\* calls on an open pipe.
OpenedAt == {k \in Calls(trace, "popen") : trace[k].rc = 1}
ClosedAt == {k \in Calls(trace, "pclose") : trace[k].n = 1}

\* The function that called popen has returned: _connect_node in
\* LocalSetup, slurm_spank_exit in the Exit hook.
OpenerReturned ==
    \/ hook = "local" /\ Calls(trace, "_connect_node returns") # {}
    \/ hook = "exit" /\ pc = "idle"

\* C15: a pipe is closed only after it was opened and never twice, and
\* once the launcher or the Exit hook has returned, every pipe it opened
\* has been closed exactly once.
C15_PipeClosedOnceBeforeReturn ==
    /\ \A c \in ClosedAt : \E o \in OpenedAt : o < c
    /\ Cardinality(ClosedAt) <= Cardinality(OpenedAt)
    /\ OpenerReturned =>
          \A o \in OpenedAt : Cardinality({c \in ClosedAt : c > o}) = 1

C15_Witness ==
    /\ hook = "local"
    /\ pc = "idle"
    /\ Cardinality(OpenedAt) = 1
    /\ Cardinality(ClosedAt) = 1
    /\ Logged(MSG_CONNECT)

\* ------------------------------------------------- the Exit hook's command

AllocFailed == \E k \in Calls(trace, "malloc") : trace[k].rc = 0

\* C16: the Exit hook calls popen only with a command it has built: never
\* with an absent command, and not at all when the allocation of the
\* command failed, in which case it has still returned 0.
C16_TeardownOnlyWithCommand ==
    hook = "exit" =>
        /\ \A k \in Calls(trace, "popen") : ~IsNull(trace[k].str)
        /\ AllocFailed => (Count("popen") = 0 /\ pc = "idle" /\ ret = Some(0))

\* ------------------------------------------------- the job-info buffer

Released == Count("slurm_free_job_info_msg")
Loaded == Asked /\ Reply.rc = 0

\* C17: when LocalSetup ends, the job-info buffer has been released exactly
\* once if slurm_load_job succeeded, whatever came after the load, and not
\* at all if the job id, the step id or the load failed; it is never
\* released twice or before it was loaded.
C17_JobInfoReleasedOnce ==
    /\ hook = "local" => Released <= (IF Loaded THEN 1 ELSE 0)
    /\ (hook = "local" /\ pc \in {"idle", "crashed"}) =>
          Released = (IF Loaded THEN 1 ELSE 0)

\* ------------------------------------------------- the Exit hook's status

\* C18: when the Exit hook ends, in a remote context with both ids
\* obtained it has returned 0, whether or not the teardown command was
\* built or spawned; with an id missing it has returned -1 and called
\* popen not at all; in a local context it has returned 0 and asked for
\* no id.
C18_ExitStatus ==
    ExitEnded =>
        IF ~Remote
        THEN pc = "idle" /\ ret = Some(0) /\ Count("spank_get_item") = 0
        ELSE IF IdsObtained
        THEN pc = "idle" /\ ret = Some(0)
        ELSE pc = "idle" /\ ret = Some(-1) /\ Count("popen") = 0

\* ------------------------------------------------- LocalSetup without ids

ItemFailed == \E k \in Calls(trace, "spank_get_item") : trace[k].rc # ESPANK_SUCCESS

\* C19: when LocalSetup could not obtain the job id or the step id, it
\* has returned a failure status, it has not asked the scheduler for the
\* job record, and it has started no helper.
C19_NoIdsNoQueryNoLaunch ==
    (hook = "local" /\ ItemFailed) =>
        /\ pc = "idle"
        /\ ~IsNull(ret) /\ Deref(ret) # 0
        /\ Count("slurm_load_job") = 0
        /\ Count("_connect_node") = 0
        /\ Count("popen") = 0

C19_Witness ==
    /\ hook = "local"
    /\ ItemFailed
    /\ Count("spank_get_item") = 2
    /\ ret = Some(-1)

====
